---- MODULE Spec2Model ----
(***************************************************************************)
(* A model of the mock OTLP collector's reactive assertion engine:         *)
(* the telemetry buffer (AbstractTelemetryCollector), the span and metric  *)
(* assertion builders, the verifiers they register, and the                *)
(* waitForAssertions coordinator behind SpanVerifier.assertAll and         *)
(* MetricVerifier.assertAll.                                               *)
(*                                                                         *)
(* JavaScript optional fields are modelled as sequences of length at most  *)
(* one: <<>> is `undefined`, <<v>> is the value v.  Objects that the code  *)
(* shares by reference (a builder's schema, which every verifier that the  *)
(* builder registers keeps pointing to) live in `builders`; a verifier     *)
(* holds the index of its builder, never a copy of the schema.             *)
(***************************************************************************)
EXTENDS Integers, Sequences, FiniteSets

\* ------------------------------------------------------------------ bounds
MaxCollects == 2    \* collect calls in one session
MaxRecords == 2     \* records collected in one session
MaxWaits == 2       \* assertAll calls in one session
MaxDeclare == 3     \* toHave..., with... and assert() calls in one session
MaxProbeRecords == 5  \* records in the buffer a single verifier is applied to

\* ------------------------------------------------------- optional values
None == <<>>
Some(x) == <<x>>
IsSome(o) == Len(o) > 0
Val(o) == o[1]

\* JavaScript truthiness of an optional string / number.
TruthyStr(o) == IsSome(o) /\ Val(o) # ""
TruthyNum(o) == IsSome(o) /\ Val(o) # 0

\* ------------------------------------------------------ attribute values
\* AttributeValue: one field per variant, the unused ones undefined.
\* A double is held in tenths (15 is 1.5).
EmptyValue == [stringValue |-> None, intValue |-> None, boolValue |-> None, doubleValue |-> None]
StringValue(s) == [EmptyValue EXCEPT !.stringValue = Some(s)]
IntValue(n) == [EmptyValue EXCEPT !.intValue = Some(n)]
BoolValue(b) == [EmptyValue EXCEPT !.boolValue = Some(b)]
DoubleValue(t) == [EmptyValue EXCEPT !.doubleValue = Some(t)]

Attr(k, v) == [key |-> k, value |-> v]

\* SpanAssertionVerifier.attributeValuesMatch, and the shared hasAttributeValue.
AttributeValuesMatch(actual, expected) ==
  IF TruthyStr(actual.stringValue) /\ TruthyStr(expected.stringValue)
    THEN Val(actual.stringValue) = Val(expected.stringValue)
  ELSE IF IsSome(actual.intValue) /\ IsSome(expected.intValue)
    THEN Val(actual.intValue) = Val(expected.intValue)
  ELSE IF IsSome(actual.boolValue) /\ IsSome(expected.boolValue)
    THEN Val(actual.boolValue) = Val(expected.boolValue)
  ELSE FALSE

HasAttributeFirstKey(attributes, expectedAttr) ==
  \E i \in 1..Len(attributes) :
    /\ attributes[i].key = expectedAttr.key
    /\ \A j \in 1..(i - 1) : attributes[j].key # expectedAttr.key
    /\ AttributeValuesMatch(attributes[i].value, expectedAttr.value)

\* hasAttribute / SpanAssertionVerifier.hasAttribute on a defined attribute list.
HasAttribute(attributes, expectedAttr) ==
  \E i \in 1..Len(attributes) :
    /\ attributes[i].key = expectedAttr.key
    /\ AttributeValuesMatch(attributes[i].value, expectedAttr.value)

HasKey(attributes, k) == \E i \in 1..Len(attributes) : attributes[i].key = k

\* ------------------------------------------------------------ errors
\* What an evaluation ends with: "ok", an AssertionError of verifier `by`
\* (expected and actual number of matches), or another error (a TypeError
\* raised while a record is read).  The generic timeout Error carries the
\* number of buffered records in `actual`.
Ok == [type |-> "ok", by |-> 0, expected |-> 0, actual |-> 0]
AssertionError(e, a) == [type |-> "AssertionError", by |-> 0, expected |-> e, actual |-> a]
TypeError == [type |-> "TypeError", by |-> 0, expected |-> 0, actual |-> 0]
TimeoutError(n) == [type |-> "Error", by |-> 0, expected |-> 0, actual |-> n]
\* The value a wait resolves with: the telemetryData array itself.
Buffer == [type |-> "telemetryData", by |-> 0, expected |-> 0, actual |-> 0]

\* ------------------------------------------------------------ spans
SemanticHttpNoTarget == <<"http.method", "http.status_code">>

\* HttpSpanAssertion.semanticAttributes.
SEMANTIC_HTTP == <<"http.method", "http.status_code", "http.target">>

EmptySpanSchema ==
  [name |-> None, kind |-> None, status |-> None, attributes |-> None, resourceAttributes |-> None]

\* SpanAssertionVerifier.matchesSpan: "true", "false", or "throw" when the
\* span's attribute list is read and is undefined.
MatchesSpan(model, semanticAttributes, span) ==
  LET want == IF IsSome(model.attributes) THEN Val(model.attributes) ELSE <<>>
      wantRes == IF IsSome(model.resourceAttributes) THEN Val(model.resourceAttributes) ELSE <<>>
      res == IF IsSome(span.resourceAttributes) THEN Val(span.resourceAttributes) ELSE <<>>
  IN
  IF TruthyStr(model.name) /\ span.name # Val(model.name) THEN "false"
  ELSE IF TruthyNum(model.kind) /\ span.kind # Val(model.kind) THEN "false"
  ELSE IF IsSome(model.status) /\ span.status.code # Val(model.status).code THEN "false"
  ELSE IF Len(want) > 0 /\ ~IsSome(span.attributes) THEN "throw"
  ELSE IF \E i \in 1..Len(want) : ~HasAttribute(Val(span.attributes), want[i]) THEN "false"
  ELSE IF \E i \in 1..Len(wantRes) : ~HasAttribute(res, wantRes[i]) THEN "false"
  ELSE IF Len(semanticAttributes) > 0 /\ ~IsSome(span.attributes) THEN "throw"
  ELSE IF \E i \in 1..Len(semanticAttributes) : ~HasKey(Val(span.attributes), semanticAttributes[i])
    THEN "false"
  ELSE "true"

SpanCountAtLeast(found, expectedCount) == found >= expectedCount

\* The comparison of SpanAssertionVerifier.verify: assert.strictEqual.
SpanCountOk(found, expectedCount) == found = expectedCount

\* SpanAssertionVerifier.verify on the buffer `spans`.  The filter reads
\* every span; the failure message is built before the comparison and
\* reads the attribute list of every matching span (getSpanSummary).
SpanVerify(model, semanticAttributes, expectedCount, spans) ==
  LET m(i) == MatchesSpan(model, semanticAttributes, spans[i])
      matching == {i \in 1..Len(spans) : m(i) = "true"}
  IN
  IF \E i \in 1..Len(spans) : m(i) = "throw" THEN TypeError
  ELSE IF \E i \in matching : ~IsSome(spans[i].attributes) THEN TypeError
  ELSE IF SpanCountOk(Cardinality(matching), expectedCount) THEN Ok
  ELSE AssertionError(expectedCount, Cardinality(matching))

\* ------------------------------------------------------------ metrics
SEMANTIC_HTTP_SERVER_DURATION ==
  <<"http.scheme", "http.method", "net.host.name", "http.flavor",
    "http.status_code", "net.host.port", "http.route">>

EmptyDataPoint ==
  [count |-> None, sum |-> None, bucketCounts |-> None, explicitBounds |-> None,
   flags |-> None, min |-> None, max |-> None, attributes |-> None]

\* The schema of a HistogramAssertion: the constructor sets schema.histogram
\* to { dataPoints: [this.dataPoint] }; gauge, sum and summary are never set
\* by any builder.
EmptyMetricSchema ==
  [name |-> None, description |-> None, unit |-> None, resourceAttributes |-> None,
   dataPoint |-> EmptyDataPoint]

\* `a !== b` on two arrays compares identity.  The arrays of a schema are
\* allocated by the builder and those of a record by the ingestion handler
\* (or the JSON decoder), so they are never the same object.
SameArray(a, b) == FALSE

\* HistogramVerifier.matchesDataPoint.
MatchesDataPoint(schema, semanticAttributes, dataPoint) ==
  LET want == IF IsSome(schema.attributes) THEN Val(schema.attributes) ELSE <<>>
      have == IF IsSome(dataPoint.attributes) THEN Val(dataPoint.attributes) ELSE <<>>
  IN
  IF TruthyNum(schema.count) /\ dataPoint.count # schema.count THEN FALSE
  ELSE IF TruthyNum(schema.sum) /\ dataPoint.sum # schema.sum THEN FALSE
  ELSE IF IsSome(schema.bucketCounts) /\ ~SameArray(dataPoint.bucketCounts, schema.bucketCounts)
    THEN FALSE
  ELSE IF IsSome(schema.explicitBounds) /\ ~SameArray(dataPoint.explicitBounds, schema.explicitBounds)
    THEN FALSE
  ELSE IF TruthyNum(schema.flags) /\ dataPoint.flags # schema.flags THEN FALSE
  ELSE IF TruthyNum(schema.min) /\ dataPoint.min # schema.min THEN FALSE
  ELSE IF TruthyNum(schema.max) /\ dataPoint.max # schema.max THEN FALSE
  ELSE IF Len(want) > 0 /\ Len(have) = 0 THEN FALSE
  ELSE IF \E i \in 1..Len(want) : ~HasAttribute(have, want[i]) THEN FALSE
  ELSE IF \E i \in 1..Len(semanticAttributes) : ~HasKey(have, semanticAttributes[i]) THEN FALSE
  ELSE TRUE

\* BaseMetricVerifier.matches for a histogram schema: "true", "false", or
\* "throw" when the histogram of the metric has no dataPoints list.
MatchesMetric(schema, semanticAttributes, metric) ==
  IF TruthyStr(schema.name) /\ metric.name # Val(schema.name) THEN "false"
  ELSE IF TruthyStr(schema.description) /\ metric.description # schema.description THEN "false"
  ELSE IF TruthyStr(schema.unit) /\ metric.unit # schema.unit THEN "false"
  ELSE IF IsSome(schema.resourceAttributes)
          /\ ~SameArray(metric.resourceAttributes, schema.resourceAttributes) THEN "false"
  ELSE IF ~IsSome(metric.histogram) THEN "false"
  ELSE IF ~IsSome(Val(metric.histogram).dataPoints) THEN "throw"
  ELSE LET dps == Val(Val(metric.histogram).dataPoints)
       IN IF \E i \in 1..Len(dps) : MatchesDataPoint(schema.dataPoint, semanticAttributes, dps[i])
            THEN "true" ELSE "false"

MetricCountExactlyOne(found) == found = 1

\* The comparison of BaseMetricVerifier.verify: assert.ok(length > 0).
MetricCountOk(found) == found > 0

\* BaseMetricVerifier.verify on the buffer `metrics`.
MetricVerify(schema, semanticAttributes, metrics) ==
  LET m(i) == MatchesMetric(schema, semanticAttributes, metrics[i])
      matching == {i \in 1..Len(metrics) : m(i) = "true"}
  IN
  IF \E i \in 1..Len(metrics) : m(i) = "throw" THEN TypeError
  ELSE IF MetricCountOk(Cardinality(matching)) THEN Ok
  ELSE AssertionError(1, Cardinality(matching))

\* ------------------------------------------------------------ state
VARIABLES
  kind,           \* "span": SpanVerifier + SpanCollector; "metric": MetricVerifier + MetricCollector
  telemetryData,  \* AbstractTelemetryCollector.telemetryData
  builders,       \* the assertion builders created so far, with their schema objects
  assertions,     \* SpanVerifier.assertions / MetricVerifier.assertions
  waits,          \* one entry per waitForAssertions call: promise, closure and timer
  batches,        \* history: the arguments of the collect calls since the last clear()
  calls,          \* history: the calls and records counted against the bounds, the
                  \* length of `assertions` at the latest assertAll(), and the
                  \* export requests handled by the traces endpoint
  probe           \* one verifier applied to one buffer, outside any session

session == <<kind, telemetryData, builders, assertions, waits, batches, calls>>
vars == <<kind, telemetryData, builders, assertions, waits, batches, calls, probe>>

Min(S) == CHOOSE x \in S : \A y \in S : x <= y

RECURSIVE Flatten(_)
Flatten(ss) == IF ss = <<>> THEN <<>> ELSE Head(ss) \o Flatten(Tail(ss))

\* ------------------------------------------------------------ inputs
Names == {"A"}
ExpectedCounts == {1, 2}

HttpAttributes ==
  <<Attr("http.method", StringValue("GET")), Attr("http.target", StringValue("/")),
    Attr("http.status_code", IntValue(200))>>

SpanA ==
  [name |-> "A", kind |-> 2, status |-> [code |-> 0], attributes |-> Some(HttpAttributes),
   resourceAttributes |-> Some(<<Attr("appname", StringValue("my-service"))>>)]

\* A span whose JSON carried no attribute list.
SpanBad ==
  [name |-> "B", kind |-> 1, status |-> [code |-> 0], attributes |-> None,
   resourceAttributes |-> Some(<<>>)]

SpanB ==
  [name |-> "B", kind |-> 3, status |-> [code |-> 0],
   attributes |-> Some(<<Attr("db.system", StringValue("redis"))>>),
   resourceAttributes |-> Some(<<>>)]

MetricA ==
  [name |-> "A", description |-> None, unit |-> Some("ms"),
   histogram |-> Some([dataPoints |-> Some(<<[EmptyDataPoint EXCEPT !.count = Some(1),
                                                !.attributes = Some(HttpAttributes)]>>)]),
   resourceAttributes |-> Some(<<>>)]

\* A histogram metric whose JSON carried no dataPoints list.
MetricBad ==
  [name |-> "B", description |-> None, unit |-> None,
   histogram |-> Some([dataPoints |-> None]), resourceAttributes |-> Some(<<>>)]

\* A gauge metric: it has no histogram.
MetricG ==
  [name |-> "A", description |-> None, unit |-> None, histogram |-> None,
   resourceAttributes |-> Some(<<>>)]

Records == IF kind = "span" THEN {SpanA, SpanBad} ELSE {MetricA, MetricBad}

SeqsUpTo(S, n) == UNION {[1..m -> S] : m \in 0..n}

Batches == SeqsUpTo(Records, MaxRecords - calls.records)

\* ------------------------------------------------------------ buffer
PushFront(buffer, data) == data \o buffer

\* this.telemetryData.push(...data)
Push(buffer, data) == buffer \o data

\* ------------------------------------------------------------ evaluation
\* One registered verifier against the buffer.  The verifier reads the
\* schema object of the builder that registered it.
VerifyOne(v, bs, data) ==
  IF v.type = "span"
    THEN SpanVerify(bs[v.builder].schema, v.semanticAttributes, v.expectedCount, data)
    ELSE MetricVerify(bs[v.builder].schema, v.semanticAttributes, data)

\* The assertionFn of assertAll: this.assertions.forEach(a => a.verify(data)),
\* which stops at the first verifier that throws.
RunAssertions(as, bs, data) ==
  LET bad == {i \in 1..Len(as) : VerifyOne(as[i], bs, data).type # "ok"}
  IN IF bad = {} THEN Ok
     ELSE [VerifyOne(as[Min(bad)], bs, data) EXCEPT !.by = Min(bad)]

\* The verifiers one evaluation calls verify on.
Visited(as, bs, data) ==
  LET r == RunAssertions(as, bs, data)
  IN IF r.type = "ok" THEN 1..Len(as) ELSE 1..r.by

\* ------------------------------------------------------------ waits
\* status, result: the promise; failedAssertion: the closure variable;
\* subscribed, timer: the subscription and the setTimeout timer.
\* History: first..last are the verifiers registered between the previous
\* assertAll() and this one, visited the verifiers the latest evaluation
\* called verify on, saw the buffer that evaluation was given, evals the
\* outcome of every evaluation, heard the number of collect calls made
\* while the promise was pending.
\* The earlier collector (waitForUpdate) uses op, the call that made the
\* entry, and update, the promise that waitForUpdate returned.
NoWait ==
  [status |-> "none", failedAssertion |-> None, subscribed |-> FALSE, timer |-> "none",
   result |-> None, first |-> 0, last |-> 0, visited |-> {}, saw |-> <<>>, evals |-> <<>>,
   heard |-> 0, op |-> "none", update |-> "none"]

CapturedFirstOnly(failedAssertion, r) ==
  IF r.type = "AssertionError" /\ ~IsSome(failedAssertion) THEN Some(r) ELSE failedAssertion

\* catch (error) { if (error instanceof AssertionError) failedAssertion = error }
Captured(failedAssertion, r) ==
  IF r.type = "AssertionError" THEN Some(r) ELSE failedAssertion

BeginAlwaysWaits(r) ==
  [NoWait EXCEPT !.status = IF r.type = "ok" THEN "resolved" ELSE "pending",
                 !.result = IF r.type = "ok" THEN Some(Buffer) ELSE None,
                 !.failedAssertion = Captured(None, r),
                 !.subscribed = TRUE, !.timer = "armed"]

BeginSubscribesLater(r) ==
  IF r.type = "ok"
    THEN [NoWait EXCEPT !.status = "resolved", !.result = Some(Buffer)]
    ELSE [NoWait EXCEPT !.status = "pending", !.failedAssertion = Captured(None, r),
                        !.subscribed = FALSE, !.timer = "armed"]

\* waitForAssertions up to its return: the immediate try and, when it
\* throws, the new Promise with its subscription and its timer.
Begin(r) ==
  IF r.type = "ok"
    THEN [NoWait EXCEPT !.status = "resolved", !.result = Some(Buffer)]
    ELSE [NoWait EXCEPT !.status = "pending", !.failedAssertion = Captured(None, r),
                        !.subscribed = TRUE, !.timer = "armed"]

OnUpdateKeepsWaiting(w, r) ==
  [w EXCEPT !.failedAssertion = Captured(w.failedAssertion, r)]

OnUpdateFailFast(w, r) ==
  IF r.type = "ok"
    THEN [w EXCEPT !.failedAssertion = None, !.subscribed = FALSE,
                   !.status = "resolved", !.result = Some(Buffer)]
    ELSE [w EXCEPT !.subscribed = FALSE, !.status = "rejected", !.result = Some(r)]

\* The subscription callback of waitForAssertions, for an evaluation that
\* ended with r.
OnUpdate(w, r) ==
  IF r.type = "ok"
    THEN [w EXCEPT !.failedAssertion = None, !.subscribed = FALSE,
                   !.status = IF w.status = "pending" THEN "resolved" ELSE w.status,
                   !.result = IF w.status = "pending" THEN Some(Buffer) ELSE w.result]
    ELSE [w EXCEPT !.failedAssertion = Captured(w.failedAssertion, r)]

OnTimeoutNeedsFailure(w, n) ==
  [w EXCEPT !.subscribed = FALSE, !.timer = "fired",
            !.status = IF w.status = "pending" /\ IsSome(w.failedAssertion)
                         THEN "rejected" ELSE w.status,
            !.result = IF w.status = "pending" /\ IsSome(w.failedAssertion)
                         THEN w.failedAssertion ELSE w.result]

OnTimeoutStaysSubscribed(w, n) ==
  [w EXCEPT !.timer = "fired",
            !.status = IF w.status = "pending" THEN "rejected" ELSE w.status,
            !.result = IF w.status # "pending" THEN w.result
                       ELSE IF IsSome(w.failedAssertion) THEN w.failedAssertion
                       ELSE Some(TimeoutError(n))]

OnTimeoutRejectsSettled(w, n) ==
  [w EXCEPT !.subscribed = FALSE, !.timer = "fired",
            !.status = "rejected",
            !.result = IF IsSome(w.failedAssertion) THEN w.failedAssertion
                       ELSE Some(TimeoutError(n))]

\* The setTimeout callback of waitForAssertions; n is telemetryData.length.
\* reject() on a promise that is already settled changes nothing.
OnTimeout(w, n) ==
  [w EXCEPT !.subscribed = FALSE, !.timer = "fired",
            !.status = IF w.status = "pending" THEN "rejected" ELSE w.status,
            !.result = IF w.status # "pending" THEN w.result
                       ELSE IF IsSome(w.failedAssertion) THEN w.failedAssertion
                       ELSE Some(TimeoutError(n))]

Started == {i \in 1..MaxWaits : waits[i].status # "none"}

NoProbe ==
  [type |-> "none", schema |-> <<>>, semanticAttributes |-> <<>>, expectedCount |-> 0,
   data |-> <<>>, outcome |-> None]

\* ------------------------------------------------------------ actions
Init ==
  /\ kind \in {"span", "metric"}
  /\ telemetryData = <<>>
  /\ builders = <<>>
  /\ assertions = <<>>
  /\ waits = [i \in 1..MaxWaits |-> NoWait]
  /\ batches = <<>>
  /\ calls = [collect |-> 0, records |-> 0, declare |-> 0, roundStart |-> 0,
              requests |-> <<>>]
  /\ probe = NoProbe

NewBuilder(type, semanticAttributes, expectedCount, schema) ==
  /\ calls.declare < MaxDeclare
  /\ builders' = Append(builders, [type |-> type, semanticAttributes |-> semanticAttributes,
                                    expectedCount |-> expectedCount, schema |-> schema])
  /\ calls' = [calls EXCEPT !.declare = @ + 1]
  /\ UNCHANGED <<kind, telemetryData, assertions, waits, batches, probe>>

\* SpanVerifier.toHaveSpanWithCount; toHaveSpan() is toHaveSpanWithCount(1).
ToHaveSpanWithCount(count) ==
  /\ kind = "span"
  /\ NewBuilder("span", <<>>, count, EmptySpanSchema)

\* SpanVerifier.toHaveHttpSpanWithCount; toHaveHttpSpan() is toHaveHttpSpanWithCount(1).
ToHaveHttpSpanWithCount(count) ==
  /\ kind = "span"
  /\ NewBuilder("span", SEMANTIC_HTTP, count, EmptySpanSchema)

\* MetricVerifier.toHaveHistogram.
ToHaveHistogram ==
  /\ kind = "metric"
  /\ NewBuilder("metric", <<>>, 1, EmptyMetricSchema)

\* MetricVerifier.toHaveHttpServerDuration.
ToHaveHttpServerDuration ==
  /\ kind = "metric"
  /\ NewBuilder("metric", SEMANTIC_HTTP_SERVER_DURATION, 1,
                [EmptyMetricSchema EXCEPT !.name = Some("http.server.duration")])

\* A with... call on builder b that turns its schema into `schema`.
With(b, schema) ==
  /\ calls.declare < MaxDeclare
  /\ builders' = [builders EXCEPT ![b].schema = schema]
  /\ calls' = [calls EXCEPT !.declare = @ + 1]
  /\ UNCHANGED <<kind, telemetryData, assertions, waits, batches, probe>>

\* SpanAssertion.withName.
SpanWithName(b, name) ==
  /\ b \in 1..Len(builders)
  /\ kind = "span"
  /\ With(b, [builders[b].schema EXCEPT !.name = Some(name)])

\* BaseMetricAssertion.withName.
MetricWithName(b, name) ==
  /\ b \in 1..Len(builders)
  /\ kind = "metric"
  /\ With(b, [builders[b].schema EXCEPT !.name = Some(name)])

BuilderAssertEvaluates(b) ==
  /\ b \in 1..Len(builders)
  /\ calls.declare < MaxDeclare
  /\ assertions' = Append(assertions,
       [type |-> builders[b].type, builder |-> b,
        semanticAttributes |-> builders[b].semanticAttributes,
        expectedCount |-> builders[b].expectedCount])
  /\ waits' = [i \in 1..MaxWaits |->
       LET r == RunAssertions(assertions', builders, telemetryData)
       IN IF waits[i].subscribed
            THEN [OnUpdate(waits[i], r) EXCEPT !.evals = Append(@, r)]
            ELSE waits[i]]
  /\ calls' = [calls EXCEPT !.declare = @ + 1]
  /\ UNCHANGED <<kind, telemetryData, builders, batches, probe>>

\* SpanAssertion.assert / BaseMetricAssertion.assert.
BuilderAssert(b) ==
  /\ b \in 1..Len(builders)
  /\ calls.declare < MaxDeclare
  /\ assertions' = Append(assertions,
       [type |-> builders[b].type, builder |-> b,
        semanticAttributes |-> builders[b].semanticAttributes,
        expectedCount |-> builders[b].expectedCount])
  /\ calls' = [calls EXCEPT !.declare = @ + 1]
  /\ UNCHANGED <<kind, telemetryData, builders, waits, batches, probe>>

AssertAllConsumes ==
  /\ Started # 1..MaxWaits
  /\ LET i == Min((1..MaxWaits) \ Started)
         r == RunAssertions(assertions, builders, telemetryData)
     IN /\ waits' = [waits EXCEPT ![i] =
             [Begin(r) EXCEPT !.first = calls.roundStart + 1, !.last = Len(assertions),
                              !.visited = Visited(assertions, builders, telemetryData),
                              !.saw = telemetryData, !.evals = <<r>>]]
        /\ telemetryData' = IF r.type = "ok" THEN <<>> ELSE telemetryData
        /\ batches' = IF r.type = "ok" THEN <<>> ELSE batches
  /\ calls' = [calls EXCEPT !.roundStart = Len(assertions)]
  /\ UNCHANGED <<kind, builders, assertions, probe>>

\* SpanVerifier.assertAll / MetricVerifier.assertAll: waitForAssertions
\* with the closure over this.assertions.
AssertAll ==
  /\ Started # 1..MaxWaits
  /\ LET i == Min((1..MaxWaits) \ Started)
         r == RunAssertions(assertions, builders, telemetryData)
     IN waits' = [waits EXCEPT ![i] =
          [Begin(r) EXCEPT !.first = calls.roundStart + 1, !.last = Len(assertions),
                           !.visited = Visited(assertions, builders, telemetryData),
                           !.saw = telemetryData, !.evals = <<r>>]]
  /\ calls' = [calls EXCEPT !.roundStart = Len(assertions)]
  /\ UNCHANGED <<kind, telemetryData, builders, assertions, batches, probe>>

CollectNotifiesFirst(data) ==
  /\ calls.collect < MaxCollects
  /\ telemetryData' = Push(telemetryData, data)
  /\ waits' = [i \in 1..MaxWaits |->
       LET r == RunAssertions(assertions, builders, telemetryData)
           w == IF waits[i].subscribed
                  THEN [OnUpdate(waits[i], r) EXCEPT
                          !.visited = Visited(assertions, builders, telemetryData),
                          !.saw = telemetryData, !.evals = Append(@, r)]
                  ELSE waits[i]
       IN [w EXCEPT !.heard = IF waits[i].status = "pending" THEN @ + 1 ELSE @]]
  /\ batches' = Append(batches, data)
  /\ calls' = [calls EXCEPT !.collect = @ + 1, !.records = @ + Len(data)]
  /\ UNCHANGED <<kind, builders, assertions, probe>>

\* AbstractTelemetryCollector.collect: push, then updateSubject.next(),
\* which runs the callback of every current subscription.
Collect(data) ==
  /\ calls.collect < MaxCollects
  /\ telemetryData' = Push(telemetryData, data)
  /\ waits' = [i \in 1..MaxWaits |->
       LET r == RunAssertions(assertions, builders, telemetryData')
           w == IF waits[i].subscribed
                  THEN [OnUpdate(waits[i], r) EXCEPT
                          !.visited = Visited(assertions, builders, telemetryData'),
                          !.saw = telemetryData', !.evals = Append(@, r)]
                  ELSE waits[i]
       IN [w EXCEPT !.heard = IF waits[i].status = "pending" THEN @ + 1 ELSE @]]
  /\ batches' = Append(batches, data)
  /\ calls' = [calls EXCEPT !.collect = @ + 1, !.records = @ + Len(data)]
  /\ UNCHANGED <<kind, builders, assertions, probe>>

\* AbstractTelemetryCollector.clear.
Clear ==
  /\ telemetryData' = <<>>
  /\ batches' = <<>>
  /\ UNCHANGED <<kind, builders, assertions, waits, calls, probe>>

\* The timer of wait i fires.  assertAll() arms every wait of a verifier
\* with the same this.options.timeout, so timers fire in the order they
\* were armed.
Timeout(i) ==
  /\ waits[i].timer = "armed"
  /\ \A j \in 1..(i - 1) : waits[j].timer # "armed"
  /\ waits' = [waits EXCEPT ![i] = OnTimeout(waits[i], Len(telemetryData))]
  /\ UNCHANGED <<kind, telemetryData, builders, assertions, batches, calls, probe>>

Next ==
  \/ \E n \in ExpectedCounts : ToHaveSpanWithCount(n)
  \/ ToHaveHistogram
  \/ \E b \in 1..MaxDeclare, n \in Names : SpanWithName(b, n)
  \/ \E b \in 1..MaxDeclare, n \in Names : MetricWithName(b, n)
  \/ \E b \in 1..MaxDeclare : BuilderAssert(b)
  \/ AssertAll
  \/ \E d \in Batches : Collect(d)
  \/ Clear
  \/ \E i \in 1..MaxWaits : Timeout(i)

Spec == Init /\ [][Next]_vars

\* ------------------------------------------------- one verifier, one buffer
\* verify() applied once to an arbitrary buffer by a verifier of an
\* arbitrary shape out of the sets below.
ProbeCounts == 0..3

ProbeSpanSchemas ==
  {[EmptySpanSchema EXCEPT !.name = n, !.attributes = a] :
     n \in {None, Some("A")},
     a \in {None, Some(<<Attr("http.method", StringValue("GET"))>>)}}

ProbeMetricSchemas ==
  {[EmptyMetricSchema EXCEPT !.name = n, !.dataPoint.count = c] :
     n \in {None, Some("A")}, c \in {None, Some(1), Some(2)}}

SpanProbes ==
  [type : {"span"}, schema : ProbeSpanSchemas, semanticAttributes : {<<>>, SEMANTIC_HTTP},
   expectedCount : ProbeCounts, data : SeqsUpTo({SpanA, SpanB, SpanBad}, MaxProbeRecords),
   outcome : {None}]

MetricProbes ==
  [type : {"metric"}, schema : ProbeMetricSchemas,
   semanticAttributes : {<<>>, SEMANTIC_HTTP_SERVER_DURATION},
   expectedCount : {1}, data : SeqsUpTo({MetricA, MetricG, MetricBad}, MaxProbeRecords),
   outcome : {None}]

VerifyInit ==
  /\ probe \in SpanProbes \cup MetricProbes
  /\ kind = probe.type
  /\ telemetryData = <<>>
  /\ builders = <<>>
  /\ assertions = <<>>
  /\ waits = [i \in 1..MaxWaits |-> NoWait]
  /\ batches = <<>>
  /\ calls = [collect |-> 0, records |-> 0, declare |-> 0, roundStart |-> 0,
              requests |-> <<>>]

\* SpanAssertionVerifier.verify(spans).
SpanProbeVerify ==
  /\ probe.type = "span"
  /\ ~IsSome(probe.outcome)
  /\ probe' = [probe EXCEPT !.outcome =
       Some(SpanVerify(probe.schema, probe.semanticAttributes, probe.expectedCount, probe.data))]
  /\ UNCHANGED session

\* BaseMetricVerifier.verify(metrics).
MetricProbeVerify ==
  /\ probe.type = "metric"
  /\ ~IsSome(probe.outcome)
  /\ probe' = [probe EXCEPT !.outcome =
       Some(MetricVerify(probe.schema, probe.semanticAttributes, probe.data))]
  /\ UNCHANGED session

VerifyNext == SpanProbeVerify \/ MetricProbeVerify

VerifySpec == VerifyInit /\ [][VerifyNext]_vars

\* setTimeout: an armed timer fires.
FairSpec == Spec /\ \A i \in 1..MaxWaits : WF_vars(Timeout(i))

\* ------------------------------------------- builders, verifiers, one buffer
\* A verifier is built by toHave..., with... and assert() calls and then
\* applied to a buffer that holds one record, or the same record twice.

MaxVerifies == 2    \* verify calls recorded for one verifier and one buffer

\* The argument of withAttribute: a string, a number (held in tenths, so
\* 15 is 1.5 and 2000 is 200) or a boolean.
Str(s) == [t |-> "string", s |-> s, n |-> 0, b |-> FALSE]
Num(n) == [t |-> "number", s |-> "", n |-> n, b |-> FALSE]
Bool(b) == [t |-> "boolean", s |-> "", n |-> 0, b |-> b]

\* SpanAssertion.toAttributeValue / BaseMetricAssertion.toAttributeValue.
ToAttributeValue(value) ==
  IF value.t = "string" THEN StringValue(value.s)
  ELSE IF value.t = "number"
    THEN IF value.n % 10 = 0 THEN IntValue(value.n \div 10) ELSE DoubleValue(value.n)
  ELSE BoolValue(value.b)

Entry(k, v) == [key |-> k, value |-> v]

AttrKeys == {"k"}
AttrValues == {Str("GET"), Str(""), Num(0), Num(2000), Num(15), Bool(FALSE)}

\* The arguments of withAttributes, as Object.entries lists them.
AttributeMaps ==
  {<<Entry("a", Num(10)), Entry("b", Num(20))>>,
   <<Entry("b", Num(20)), Entry("a", Num(10))>>,
   <<Entry("a", Num(20))>>,
   <<Entry("k", Str("GET")), Entry("c", Num(30))>>}

SpanOf(attributes) ==
  [name |-> "A", kind |-> 2, status |-> [code |-> 0], attributes |-> Some(attributes),
   resourceAttributes |-> Some(<<>>)]

\* Extra attributes, another order than the expectation's, a key twice.
SpanDup ==
  SpanOf(<<Attr("c", IntValue(3)), Attr("a", IntValue(2)), Attr("b", IntValue(2)),
           Attr("a", IntValue(1))>>)

SpanNoTarget ==
  SpanOf(<<Attr("http.method", StringValue("GET")), Attr("http.status_code", IntValue(200))>>)

MatchSpans ==
  {SpanOf(<<Attr("k", ToAttributeValue(v))>>) : v \in AttrValues}
    \cup {SpanA, SpanB, SpanDup, SpanNoTarget}

\* this.schema.attributes.push(attribute) after `if (!attributes) attributes = []`.
PushAttributes(list, more) == Some((IF IsSome(list) THEN Val(list) ELSE <<>>) \o more)

AttributesOf(entries) ==
  [i \in 1..Len(entries) |-> Attr(entries[i].key, ToAttributeValue(entries[i].value))]

\* SpanAssertion.withAttribute.
SpanWithAttribute(b, key, value) ==
  /\ b \in 1..Len(builders)
  /\ kind = "span"
  /\ With(b, [builders[b].schema EXCEPT
               !.attributes = PushAttributes(@, <<Attr(key, ToAttributeValue(value))>>)])

\* SpanAssertion.withAttributes.
SpanWithAttributes(b, entries) ==
  /\ b \in 1..Len(builders)
  /\ kind = "span"
  /\ With(b, [builders[b].schema EXCEPT !.attributes = PushAttributes(@, AttributesOf(entries))])

\* HttpSpanAssertion.withMethod / withHttpStatus / withUrl.
WithMethod(b, method) ==
  /\ b \in 1..Len(builders)
  /\ builders[b].semanticAttributes = SEMANTIC_HTTP
  /\ SpanWithAttribute(b, "http.method", Str(method))

WithHttpStatus(b, statusCode) ==
  /\ b \in 1..Len(builders)
  /\ builders[b].semanticAttributes = SEMANTIC_HTTP
  /\ SpanWithAttribute(b, "http.status_code", Num(statusCode))

WithUrl(b, url) ==
  /\ b \in 1..Len(builders)
  /\ builders[b].semanticAttributes = SEMANTIC_HTTP
  /\ SpanWithAttribute(b, "http.target", Str(url))

\* Histogram data points of the buffered metrics.
DataPoint0 ==
  [EmptyDataPoint EXCEPT !.count = Some(0), !.sum = Some(0), !.bucketCounts = Some(<<0, 0>>),
                         !.explicitBounds = Some(<<10>>), !.flags = Some(0),
                         !.min = Some(0), !.max = Some(0)]

DataPoint1 ==
  [EmptyDataPoint EXCEPT !.count = Some(1), !.sum = Some(1), !.bucketCounts = Some(<<1, 0>>),
                         !.explicitBounds = Some(<<10>>), !.flags = Some(1),
                         !.min = Some(1), !.max = Some(1)]

DataPoint2 ==
  [EmptyDataPoint EXCEPT !.count = Some(2), !.sum = Some(3), !.bucketCounts = Some(<<0, 2>>),
                         !.explicitBounds = Some(<<20>>), !.flags = Some(0),
                         !.min = Some(1), !.max = Some(2)]

MetricOf(dataPoint) ==
  [name |-> "A", description |-> None, unit |-> Some("ms"),
   histogram |-> Some([dataPoints |-> Some(<<dataPoint>>)]),
   resourceAttributes |-> Some(<<>>)]

\* A metric exported under a resource that names its service.
MetricR ==
  [MetricOf(DataPoint1) EXCEPT
     !.resourceAttributes = Some(<<Attr("service.name", StringValue("my-service"))>>)]

MatchMetrics ==
  {MetricOf(dp) : dp \in {DataPoint0, DataPoint1, DataPoint2}}
    \cup {MetricOf([EmptyDataPoint EXCEPT !.attributes = Some(<<Attr("k", ToAttributeValue(v))>>)]) :
            v \in AttrValues}
    \cup {MetricA, MetricG, MetricR}

NumberInputs == {0, 1}
ListInputs == {<<1, 0>>, <<10>>}

\* BaseMetricAssertion.withResourceAttribute.
MetricWithResourceAttribute(b, key, value) ==
  /\ b \in 1..Len(builders)
  /\ kind = "metric"
  /\ With(b, [builders[b].schema EXCEPT
               !.resourceAttributes = PushAttributes(@, <<Attr(key, ToAttributeValue(value))>>)])

\* A HistogramAssertion method that assigns to or pushes into this.dataPoint.
WithDataPoint(b, dataPoint) ==
  /\ b \in 1..Len(builders)
  /\ kind = "metric"
  /\ With(b, [builders[b].schema EXCEPT !.dataPoint = dataPoint])

\* HistogramAssertion.withAttribute.
HistogramWithAttribute(b, key, value) ==
  /\ b \in 1..Len(builders)
  /\ WithDataPoint(b, [builders[b].schema.dataPoint EXCEPT
         !.attributes = PushAttributes(@, <<Attr(key, ToAttributeValue(value))>>)])

\* HistogramAssertion.withCount / withSum / withFlags / withMin / withMax.
WithCount(b, count) ==
  /\ b \in 1..Len(builders)
  /\ WithDataPoint(b, [builders[b].schema.dataPoint EXCEPT !.count = Some(count)])

WithSum(b, sum) ==
  /\ b \in 1..Len(builders)
  /\ WithDataPoint(b, [builders[b].schema.dataPoint EXCEPT !.sum = Some(sum)])

WithFlags(b, flags) ==
  /\ b \in 1..Len(builders)
  /\ WithDataPoint(b, [builders[b].schema.dataPoint EXCEPT !.flags = Some(flags)])

WithMin(b, min) ==
  /\ b \in 1..Len(builders)
  /\ WithDataPoint(b, [builders[b].schema.dataPoint EXCEPT !.min = Some(min)])

WithMax(b, max) ==
  /\ b \in 1..Len(builders)
  /\ WithDataPoint(b, [builders[b].schema.dataPoint EXCEPT !.max = Some(max)])

\* HistogramAssertion.withBucketCounts / withExplicitBounds.
WithBucketCounts(b, bucketCounts) ==
  /\ b \in 1..Len(builders)
  /\ WithDataPoint(b, [builders[b].schema.dataPoint EXCEPT !.bucketCounts = Some(bucketCounts)])

WithExplicitBounds(b, explicitBounds) ==
  /\ b \in 1..Len(builders)
  /\ WithDataPoint(b, [builders[b].schema.dataPoint EXCEPT !.explicitBounds = Some(explicitBounds)])

\* The probe of registered verifier v on the current buffer, before verify.
ProbeOf(v) ==
  [type |-> v.type, schema |-> builders[v.builder].schema,
   semanticAttributes |-> v.semanticAttributes, expectedCount |-> v.expectedCount,
   data |-> telemetryData, outcome |-> <<>>]

\* The outcomes recorded so far for verifier v as it is now, on this buffer.
OutcomesOf(v) ==
  IF probe.type = v.type /\ [probe EXCEPT !.outcome = <<>>] = ProbeOf(v)
    THEN probe.outcome ELSE <<>>

VerifyRegisteredConsuming(i) ==
  /\ i \in 1..Len(assertions)
  /\ Len(OutcomesOf(assertions[i])) < MaxVerifies
  /\ probe' = [ProbeOf(assertions[i]) EXCEPT
                 !.outcome = Append(OutcomesOf(assertions[i]),
                                    VerifyOne(assertions[i], builders, telemetryData))]
  /\ telemetryData' = Tail(telemetryData)
  /\ UNCHANGED <<kind, builders, assertions, waits, batches, calls>>

\* verify(telemetryData) called on registered verifier i: the filter, the
\* comparison and the message read the buffer and the verifier and assign
\* to neither.
VerifyRegistered(i) ==
  /\ i \in 1..Len(assertions)
  /\ Len(OutcomesOf(assertions[i])) < MaxVerifies
  /\ probe' = [ProbeOf(assertions[i]) EXCEPT
                 !.outcome = Append(OutcomesOf(assertions[i]),
                                    VerifyOne(assertions[i], builders, telemetryData))]
  /\ UNCHANGED session

MatchBuffers ==
  LET R == IF kind = "span" THEN MatchSpans ELSE MatchMetrics
  IN {<<r>> : r \in R} \cup {<<r, r>> : r \in R}

MatchInit ==
  /\ kind \in {"span", "metric"}
  /\ telemetryData \in MatchBuffers
  /\ builders = <<>>
  /\ assertions = <<>>
  /\ waits = [i \in 1..MaxWaits |-> NoWait]
  /\ batches = <<telemetryData>>
  /\ calls = [collect |-> 1, records |-> Len(telemetryData), declare |-> 0, roundStart |-> 0,
              requests |-> <<>>]
  /\ probe = NoProbe

MatchNext ==
  \/ \E n \in ExpectedCounts : ToHaveSpanWithCount(n)
  \/ \E n \in ExpectedCounts : ToHaveHttpSpanWithCount(n)
  \/ ToHaveHistogram
  \/ ToHaveHttpServerDuration
  \/ \E b \in 1..MaxDeclare, n \in Names : SpanWithName(b, n)
  \/ \E b \in 1..MaxDeclare, n \in Names : MetricWithName(b, n)
  \/ \E b \in 1..MaxDeclare, k \in AttrKeys, v \in AttrValues : SpanWithAttribute(b, k, v)
  \/ \E b \in 1..MaxDeclare, es \in AttributeMaps : SpanWithAttributes(b, es)
  \/ \E b \in 1..MaxDeclare : WithMethod(b, "GET")
  \/ \E b \in 1..MaxDeclare : WithHttpStatus(b, 2000)
  \/ \E b \in 1..MaxDeclare : WithUrl(b, "/")
  \/ \E b \in 1..MaxDeclare, k \in AttrKeys, v \in AttrValues : HistogramWithAttribute(b, k, v)
  \/ \E b \in 1..MaxDeclare : MetricWithResourceAttribute(b, "service.name", Str("my-service"))
  \/ \E b \in 1..MaxDeclare, n \in NumberInputs : WithCount(b, n)
  \/ \E b \in 1..MaxDeclare, n \in NumberInputs : WithSum(b, n)
  \/ \E b \in 1..MaxDeclare, n \in NumberInputs : WithFlags(b, n)
  \/ \E b \in 1..MaxDeclare, n \in NumberInputs : WithMin(b, n)
  \/ \E b \in 1..MaxDeclare, n \in NumberInputs : WithMax(b, n)
  \/ \E b \in 1..MaxDeclare, l \in ListInputs : WithBucketCounts(b, l)
  \/ \E b \in 1..MaxDeclare, l \in ListInputs : WithExplicitBounds(b, l)
  \/ \E b \in 1..MaxDeclare : BuilderAssert(b)
  \/ \E i \in 1..MaxDeclare : VerifyRegistered(i)

MatchSpec == MatchInit /\ [][MatchNext]_vars

\* ------------------------------------------------------ traces ingestion
\* POST v1/traces: TracesController.handleTraces decodes nothing itself; it
\* walks the resourceSpans of the request body, copies the resource's
\* attribute list onto every span and hands each scopeSpans entry's spans
\* to collect.

MaxRequests == 2    \* export requests handled in one session

\* Spans as they arrive in a request body.
RawA ==
  [name |-> "A", kind |-> 2, status |-> [code |-> 0], attributes |-> Some(HttpAttributes),
   resourceAttributes |-> None]

RawB ==
  [name |-> "B", kind |-> 3, status |-> [code |-> 0], attributes |-> Some(<<>>),
   resourceAttributes |-> None]

\* A span whose JSON already has a resourceAttributes member.
RawStale ==
  [name |-> "A", kind |-> 1, status |-> [code |-> 0], attributes |-> Some(<<>>),
   resourceAttributes |-> Some(<<Attr("appname", StringValue("stale"))>>)]

\* ResourceSpans entries: a resource with attributes and two scopeSpans, no
\* resource, and a resource without attributes plus a scopeSpans entry
\* without spans.
EntryService ==
  [resource |-> Some([attributes |-> Some(<<Attr("appname", StringValue("my-service"))>>)]),
   scopeSpans |-> <<[spans |-> Some(<<RawA>>)], [spans |-> Some(<<RawB>>)]>>]

EntryNoResource ==
  [resource |-> None, scopeSpans |-> <<[spans |-> Some(<<RawStale, RawA>>)]>>]

EntryBare ==
  [resource |-> Some([attributes |-> None]),
   scopeSpans |-> <<[spans |-> None], [spans |-> Some(<<RawB>>)]>>]

Requests ==
  {[resourceSpans |-> rs] :
     rs \in {<<EntryService>>, <<EntryNoResource>>, <<EntryBare, EntryService>>, <<>>}}

\* resourceSpan.resource?.attributes || []
ResourceAttributesOf(resourceSpan) ==
  IF IsSome(resourceSpan.resource) /\ IsSome(Val(resourceSpan.resource).attributes)
    THEN Val(Val(resourceSpan.resource).attributes)
    ELSE <<>>

EnrichKeepsOwn(span, resourceAttributes) ==
  IF IsSome(span.resourceAttributes) THEN span
  ELSE [span EXCEPT !.resourceAttributes = Some(resourceAttributes)]

\* { ...span, resourceAttributes }
Enrich(span, resourceAttributes) ==
  [span EXCEPT !.resourceAttributes = Some(resourceAttributes)]

\* The arrays that the inner loop passes to collect, in order.
RECURSIVE ScopeBatches(_, _)
ScopeBatches(scopeSpans, resourceAttributes) ==
  IF scopeSpans = <<>> THEN <<>>
  ELSE LET spans == Head(scopeSpans).spans
           rest == ScopeBatches(Tail(scopeSpans), resourceAttributes)
       IN IF ~IsSome(spans) THEN rest
          ELSE <<[i \in 1..Len(Val(spans)) |-> Enrich(Val(spans)[i], resourceAttributes)]>> \o rest

\* The arrays that handleTraces passes to collect, in order.
RECURSIVE RequestBatches(_)
RequestBatches(resourceSpans) ==
  IF resourceSpans = <<>> THEN <<>>
  ELSE ScopeBatches(Head(resourceSpans).scopeSpans, ResourceAttributesOf(Head(resourceSpans)))
         \o RequestBatches(Tail(resourceSpans))

\* The buffer and the waits after one collect(data) call.
Collected(state, data) ==
  LET buffer == Push(state.telemetryData, data)
      r == RunAssertions(assertions, builders, buffer)
  IN [telemetryData |-> buffer,
      waits |-> [i \in 1..MaxWaits |->
        LET w == IF state.waits[i].subscribed
                   THEN [OnUpdate(state.waits[i], r) EXCEPT
                           !.visited = Visited(assertions, builders, buffer),
                           !.saw = buffer, !.evals = Append(@, r)]
                   ELSE state.waits[i]
        IN [w EXCEPT !.heard = IF state.waits[i].status = "pending" THEN @ + 1 ELSE @]]]

RECURSIVE CollectedAll(_, _)
CollectedAll(state, datas) ==
  IF datas = <<>> THEN state
  ELSE CollectedAll(Collected(state, Head(datas)), Tail(datas))

\* TracesController.handleTraces(data).
HandleTraces(data) ==
  /\ Len(calls.requests) < MaxRequests
  /\ LET datas == RequestBatches(data.resourceSpans)
         after == CollectedAll([telemetryData |-> telemetryData, waits |-> waits], datas)
     IN /\ telemetryData' = after.telemetryData
        /\ waits' = after.waits
        /\ batches' = batches \o datas
        /\ calls' = [calls EXCEPT !.collect = @ + Len(datas),
                                  !.records = @ + Len(Flatten(datas)),
                                  !.requests = Append(@, data)]
  /\ UNCHANGED <<kind, builders, assertions, probe>>

IngestInit == Init /\ kind = "span"

\* The names of the spans in Requests.
IngestNames == {"A", "B"}

IngestNext ==
  \/ \E n \in ExpectedCounts : ToHaveSpanWithCount(n)
  \/ \E b \in 1..MaxDeclare, n \in IngestNames : SpanWithName(b, n)
  \/ \E b \in 1..MaxDeclare : BuilderAssert(b)
  \/ AssertAll
  \/ \E data \in Requests : HandleTraces(data)
  \/ \E i \in 1..MaxWaits : Timeout(i)

IngestSpec == IngestInit /\ [][IngestNext]_vars

\* --------------------------------------------- the earlier collector
\* The first AbstractTelemetryCollector has waitForUpdate() instead of
\* waitForAssertions(): a promise that the next collect call resolves with
\* the buffer, through a subscription that is never closed.  The first
\* SpanVerifier.assertAll awaits it, then reads the buffer and runs the
\* verifiers.  The code after an await runs as a microtask: after the
\* synchronous caller of collect has finished (a request handler makes its
\* further collect calls first) and before any other task, so before the
\* test's next call.

\* The assertAll calls whose awaited promise is resolved and whose
\* continuation has not run yet.
Queued ==
  {i \in 1..MaxWaits :
     waits[i].op = "assertAll" /\ waits[i].update = "resolved" /\ waits[i].status = "pending"}

\* new Promise((resolve) => this.updateSubject.subscribe(() => resolve(this.telemetryData)))
Subscribe(op) ==
  [NoWait EXCEPT !.op = op, !.status = "pending", !.update = "pending", !.subscribed = TRUE]

\* The subscription callback of waitForUpdate; buffer is this.telemetryData.
\* resolve() on a promise that is already resolved changes nothing.
OnNext(w, buffer) ==
  IF w.update = "pending"
    THEN [w EXCEPT !.update = "resolved", !.saw = buffer, !.heard = @ + 1,
                   !.status = IF w.op = "waitForUpdate" THEN "resolved" ELSE @,
                   !.result = IF w.op = "waitForUpdate" THEN Some(Buffer) ELSE @]
    ELSE [w EXCEPT !.heard = @ + 1]

\* collector.waitForUpdate(), called by a test.
WaitForUpdate ==
  /\ Queued = {}
  /\ Started # 1..MaxWaits
  /\ waits' = [waits EXCEPT ![Min((1..MaxWaits) \ Started)] = Subscribe("waitForUpdate")]
  /\ UNCHANGED <<kind, telemetryData, builders, assertions, batches, calls, probe>>

EarlyAssertAllChecksFirst ==
  /\ Queued = {}
  /\ Started # 1..MaxWaits
  /\ LET i == Min((1..MaxWaits) \ Started)
         r == RunAssertions(assertions, builders, telemetryData)
     IN waits' = [waits EXCEPT ![i] =
          IF r.type = "ok"
            THEN [Subscribe("assertAll") EXCEPT
                    !.status = "resolved", !.last = Len(assertions), !.saw = telemetryData,
                    !.evals = <<r>>]
            ELSE [Subscribe("assertAll") EXCEPT !.last = Len(assertions)]]
  /\ UNCHANGED <<kind, telemetryData, builders, assertions, batches, calls, probe>>

\* The first SpanVerifier.assertAll up to its await.
EarlyAssertAll ==
  /\ Queued = {}
  /\ Started # 1..MaxWaits
  /\ waits' = [waits EXCEPT ![Min((1..MaxWaits) \ Started)] =
       [Subscribe("assertAll") EXCEPT !.last = Len(assertions)]]
  /\ UNCHANGED <<kind, telemetryData, builders, assertions, batches, calls, probe>>

\* The rest of assertAll: retrieve(), then verify on every verifier; an
\* error thrown by one rejects the promise that assertAll returned.
Continue(i) ==
  /\ i \in Queued
  /\ LET r == RunAssertions(assertions, builders, telemetryData)
     IN waits' = [waits EXCEPT ![i] =
          [@ EXCEPT !.status = IF r.type = "ok" THEN "resolved" ELSE "rejected",
                    !.result = IF r.type = "ok" THEN None ELSE Some(r),
                    !.visited = Visited(assertions, builders, telemetryData),
                    !.saw = telemetryData, !.evals = Append(@, r)]]
  /\ UNCHANGED <<kind, telemetryData, builders, assertions, batches, calls, probe>>

EarlyCollectResolvesOldest(data) ==
  /\ calls.collect < MaxCollects
  /\ telemetryData' = Push(telemetryData, data)
  /\ waits' = [i \in 1..MaxWaits |->
       IF waits[i].subscribed /\ \A j \in 1..(i - 1) : waits[j].update # "pending"
         THEN OnNext(waits[i], telemetryData')
         ELSE waits[i]]
  /\ batches' = Append(batches, data)
  /\ calls' = [calls EXCEPT !.collect = @ + 1, !.records = @ + Len(data)]
  /\ UNCHANGED <<kind, builders, assertions, probe>>

\* The first AbstractTelemetryCollector.collect: push, then
\* updateSubject.next(null), which runs every subscription's callback.
EarlyCollect(data) ==
  /\ calls.collect < MaxCollects
  /\ telemetryData' = Push(telemetryData, data)
  /\ waits' = [i \in 1..MaxWaits |->
       IF waits[i].subscribed THEN OnNext(waits[i], telemetryData') ELSE waits[i]]
  /\ batches' = Append(batches, data)
  /\ calls' = [calls EXCEPT !.collect = @ + 1, !.records = @ + Len(data)]
  /\ UNCHANGED <<kind, builders, assertions, probe>>

\* The first AbstractTelemetryCollector.clear, called by a test.
EarlyClear ==
  /\ Queued = {}
  /\ Clear

EarlyInit == Init /\ kind = "span"

EarlyNext ==
  \/ Queued = {} /\ \E n \in ExpectedCounts : ToHaveSpanWithCount(n)
  \/ Queued = {} /\ \E b \in 1..MaxDeclare, n \in Names : SpanWithName(b, n)
  \/ Queued = {} /\ \E b \in 1..MaxDeclare : BuilderAssert(b)
  \/ WaitForUpdate
  \/ EarlyAssertAll
  \/ \E d \in Batches : EarlyCollect(d)
  \/ EarlyClear
  \/ \E i \in 1..MaxWaits : Continue(i)

EarlySpec == EarlyInit /\ [][EarlyNext]_vars

\* ------------------------------------------------------------ claims
CollectStep == calls'.collect = calls.collect + 1

Max(S) == CHOOSE x \in S : \A y \in S : x >= y

CapturedAt(w) == {k \in 1..Len(w.evals) : w.evals[k].type = "AssertionError"}

\* C1: a collect call made while a wait is pending, after which every
\* verifier in the verifier's list passes on the buffer, resolves the wait
\* in that very step.
C1_ReactiveResolution ==
  [][\A i \in 1..MaxWaits :
       (/\ waits[i].status = "pending"
        /\ CollectStep
        /\ RunAssertions(assertions', builders', telemetryData').type = "ok")
       => waits'[i].status = "resolved" /\ waits'[i].result = Some(Buffer)]_vars

C1_Witness ==
  \E i \in 1..MaxWaits :
    /\ waits[i].status = "resolved"
    /\ Len(waits[i].evals) >= 2
    /\ waits[i].evals[1].type = "AssertionError"
    /\ waits[i].timer = "armed"

\* C2: a wait whose first evaluation passes is resolved with the buffer by
\* that evaluation alone, was never subscribed and has no timer.
C2_ImmediateResolution ==
  \A i \in Started :
    waits[i].evals[1].type = "ok"
      => /\ waits[i].status = "resolved"
         /\ waits[i].result = Some(Buffer)
         /\ Len(waits[i].evals) = 1
         /\ ~waits[i].subscribed
         /\ waits[i].timer = "none"

C2_Witness ==
  \E i \in Started :
    /\ waits[i].evals[1].type = "ok"
    /\ Len(assertions) > 0
    /\ Len(telemetryData) > 0

\* C3: every evaluation of a wait calls verify only on verifiers that were
\* registered between the previous assertAll() and the assertAll() that
\* started the wait.
C3_OnlyCurrentRound ==
  \A i \in Started : waits[i].visited \subseteq waits[i].first..waits[i].last

\* C4: a wait is rejected only by its own timer firing while it is pending,
\* is resolved only at its start or by a collect call whose evaluation
\* passes, and an evaluation that fails leaves it pending.
C4_SettledOnlyBySuccessOrTimer ==
  [][\A i \in 1..MaxWaits :
       /\ (waits[i].status # "rejected" /\ waits'[i].status = "rejected")
            => /\ waits[i].status = "pending"
               /\ waits[i].timer = "armed" /\ waits'[i].timer = "fired"
       /\ (waits[i].status = "none" /\ waits'[i].status # "none")
            => waits'[i].status = IF waits'[i].evals[1].type = "ok" THEN "resolved" ELSE "pending"
       /\ (waits[i].status = "pending" /\ waits'[i].status = "resolved")
            => /\ CollectStep
               /\ RunAssertions(assertions', builders', telemetryData').type = "ok"
       /\ (waits[i].status = "pending" /\ waits[i].timer = waits'[i].timer
            /\ RunAssertions(assertions', builders', telemetryData').type # "ok")
            => waits'[i].status = "pending"
       /\ waits[i].status \in {"resolved", "rejected"} => waits'[i].status = waits[i].status]_vars

C4_Witness ==
  \E i \in 1..MaxWaits :
    /\ waits[i].status = "pending"
    /\ Len(waits[i].evals) >= 2
    /\ waits[i].evals[Len(waits[i].evals)].type # "ok"

\* C5: the timer rejects a pending wait with the AssertionError of the
\* latest evaluation that threw one, and with the generic timeout error,
\* which carries the buffer length, when no evaluation threw one.
C5_RejectsWithLastFailure ==
  [][\A i \in 1..MaxWaits :
       (waits[i].status = "pending" /\ waits'[i].status = "rejected")
       => waits'[i].result =
            IF CapturedAt(waits[i]) # {}
              THEN Some(waits[i].evals[Max(CapturedAt(waits[i]))])
              ELSE Some(TimeoutError(Len(telemetryData)))]_vars

C5_Witness ==
  \E i \in 1..MaxWaits :
    /\ waits[i].status = "rejected"
    /\ Cardinality(CapturedAt(waits[i])) >= 2
    /\ waits[i].evals[Min(CapturedAt(waits[i]))] # waits[i].evals[Max(CapturedAt(waits[i]))]
    /\ waits[i].result = Some(waits[i].evals[Max(CapturedAt(waits[i]))])

\* C6: under FairSpec every pending wait is eventually resolved or rejected.
C6_EveryWaitSettles ==
  \A i \in 1..MaxWaits :
    (waits[i].status = "pending") ~> (waits[i].status \in {"resolved", "rejected"})

C6_Witness ==
  \E i \in 1..MaxWaits :
    /\ waits[i].status = "rejected"
    /\ waits[i].result = Some(TimeoutError(Len(telemetryData)))

\* C7: without clear(), the buffer is the concatenation, in call order,
\* of the record lists given to collect.
C7_BufferIsConcatenation == telemetryData = Flatten(batches)

C7_Witness ==
  /\ Len(batches) = 2
  /\ Len(batches[1]) > 0 /\ Len(batches[2]) > 0
  /\ batches[1] # batches[2]
  /\ telemetryData = batches[1] \o batches[2]

\* C8: a wait has run one evaluation at its start and one more for each
\* collect call made while it was pending, and no other.
C8_OneEvaluationPerCollect ==
  \A i \in Started : Len(waits[i].evals) = 1 + waits[i].heard

C8_Witness ==
  \E i \in Started :
    /\ waits[i].heard = 1
    /\ Len(telemetryData) = 2
    /\ Len(batches) = 1
    /\ waits[i].timer = "fired"

\* The spans of the Span type: every one has an attribute list.
TypedSpans(data) == \A k \in 1..Len(data) : IsSome(data[k].attributes)

\* The metrics of the Metric type: a histogram has a dataPoints list.
TypedMetrics(data) ==
  \A k \in 1..Len(data) :
    IsSome(data[k].histogram) => IsSome(Val(data[k].histogram).dataPoints)

ProbeMatching ==
  {k \in 1..Len(probe.data) :
     IF probe.type = "span"
       THEN MatchesSpan(probe.schema, probe.semanticAttributes, probe.data[k]) = "true"
       ELSE MatchesMetric(probe.schema, probe.semanticAttributes, probe.data[k]) = "true"}

C10_AtLeastOne ==
  (probe.type = "metric" /\ IsSome(probe.outcome) /\ TypedMetrics(probe.data))
  => Val(probe.outcome) =
       IF ProbeMatching # {} THEN Ok ELSE AssertionError(1, 0)

C10_Witness ==
  /\ probe.type = "metric" /\ IsSome(probe.outcome) /\ TypedMetrics(probe.data)
  /\ Len(probe.data) = 5
  /\ Cardinality(ProbeMatching) = 3
  /\ Val(probe.outcome) = Ok

\* C11: the schema that a registered verifier checks is the same after
\* every step as before it: no call made after assert() changes it.
C11_RegisteredShapeFixed ==
  [][\A i \in 1..Len(assertions) :
       builders'[assertions[i].builder].schema = builders[assertions[i].builder].schema]_vars

\* C12: a wait whose evaluation ended with an error that is not an
\* AssertionError is rejected with that error.
C12_OtherErrorsPropagate ==
  \A i \in Started :
    \A k \in 1..Len(waits[i].evals) :
      waits[i].evals[k].type \notin {"ok", "AssertionError"}
        => waits[i].status = "rejected" /\ waits[i].result = Some(waits[i].evals[k])

\* C13: an evaluation of a wait calls verify only on verifiers that were
\* registered before the assertAll() that started the wait; verifiers
\* declared while the wait is pending are not part of what it checks.
C13_ChecksOnlyItsOwnAssertions ==
  \A i \in Started : waits[i].visited \subseteq 1..waits[i].last

DeclareStep == calls'.declare = calls.declare + 1

\* C19: a toHave..., with... or assert() call leaves the buffer and every
\* wait as they were and runs no evaluation; a with... call changes only
\* its builder, and assert() appends exactly one verifier to the list and
\* changes no builder.
C19_BuildersOnlyDeclare ==
  [][DeclareStep =>
       /\ telemetryData' = telemetryData
       /\ waits' = waits
       /\ \/ assertions' = assertions
          \/ /\ Len(assertions') = Len(assertions) + 1
             /\ SubSeq(assertions', 1, Len(assertions)) = assertions
             /\ builders' = builders]_vars

C19_Witness ==
  \E i \in Started :
    /\ waits[i].status = "pending"
    /\ Len(assertions) > waits[i].last
    /\ Len(telemetryData) > 0
    /\ Len(waits[i].evals) = 1

SetOf(seq) == {seq[i] : i \in 1..Len(seq)}

\* The attribute lists of a record: a span's own, a metric's data points'.
AttributeLists(record) ==
  IF probe.type = "span"
    THEN {Val(record.attributes)}
    ELSE IF ~IsSome(record.histogram) THEN {}
    ELSE {IF IsSome(dp.attributes) THEN Val(dp.attributes) ELSE <<>> :
            dp \in SetOf(Val(Val(record.histogram).dataPoints))}

\* The records of the probed buffer that carry attribute e itself: the
\* same key, the same variant populated, an equal value.
Carrying(e) ==
  {k \in 1..Len(probe.data) : \E list \in AttributeLists(probe.data[k]) : e \in SetOf(list)}

\* The probed verifier was built by withAttribute(e.key, v) alone.
BuiltWithOnly(e) ==
  /\ probe.type # "none"
  /\ Len(probe.outcome) > 0
  /\ probe.semanticAttributes = <<>>
  /\ IF probe.type = "span"
       THEN probe.schema = [EmptySpanSchema EXCEPT !.attributes = Some(<<e>>)]
       ELSE probe.schema = [EmptyMetricSchema EXCEPT !.dataPoint.attributes = Some(<<e>>)]

\* C14: a verifier built by withAttribute(key, v) alone, for any string,
\* number or boolean v, passes exactly when the required number of records
\* (the expected count of spans, at least one metric) carry an attribute
\* with that key, the same variant populated and an equal value.
C14_SameVariantEqualValueMatches ==
  \A key \in AttrKeys, v \in AttrValues :
    LET e == Attr(key, ToAttributeValue(v))
    IN BuiltWithOnly(e) =>
         ((probe.outcome[1] = Ok) <=>
            IF probe.type = "span"
              THEN Cardinality(Carrying(e)) = probe.expectedCount
              ELSE Carrying(e) # {})

\* Span k of the probed buffer has, for every expected attribute, some
\* attribute with that key and a matching value.
HasEveryExpected(k) ==
  \A e \in SetOf(Val(probe.schema.attributes)) :
    \E a \in SetOf(Val(probe.data[k].attributes)) :
      a.key = e.key /\ AttributeValuesMatch(a.value, e.value)

\* C15: a span matches a verifier with an attribute list exactly when it
\* satisfies the verifier's other constraints and has, for every expected
\* attribute, at least one attribute with that key and a matching value,
\* whatever else the span carries and in whatever order.
C15_AttributesExistential ==
  (probe.type = "span" /\ Len(probe.outcome) > 0 /\ IsSome(probe.schema.attributes))
  => LET others(k) == MatchesSpan([probe.schema EXCEPT !.attributes = None],
                                  probe.semanticAttributes, probe.data[k]) = "true"
         matching == {k \in 1..Len(probe.data) : others(k) /\ HasEveryExpected(k)}
     IN /\ ProbeMatching = matching
        /\ (probe.outcome[1] = Ok) <=> (Cardinality(matching) = probe.expectedCount)

C15_Witness ==
  /\ probe.type = "span" /\ Len(probe.outcome) > 0
  /\ probe.data = <<SpanDup>>
  /\ probe.schema.attributes = Some(<<Attr("a", IntValue(1)), Attr("b", IntValue(2))>>)
  /\ probe.outcome[1] = Ok

\* Span k of the probed buffer has an attribute with each of the three keys.
HasHttpKeys(k) ==
  \A key \in {"http.method", "http.status_code", "http.target"} :
    \E a \in SetOf(Val(probe.data[k].attributes)) : a.key = key

\* C16: a verifier registered through toHaveHttpSpanWithCount matches a
\* span exactly when the span has an attribute with each of the keys
\* http.method, http.status_code and http.target and satisfies the
\* constraints of the with... calls; a verifier registered through
\* toHaveSpanWithCount with no with... call matches every span.
C16_SemanticKeysRequired ==
  (probe.type = "span" /\ Len(probe.outcome) > 0)
  => /\ probe.semanticAttributes # <<>> =>
          ProbeMatching =
            {k \in 1..Len(probe.data) :
               HasHttpKeys(k) /\ MatchesSpan(probe.schema, <<>>, probe.data[k]) = "true"}
     /\ (probe.semanticAttributes = <<>> /\ probe.schema = EmptySpanSchema) =>
          ProbeMatching = 1..Len(probe.data)

C16_Witness ==
  /\ probe.type = "span" /\ Len(probe.outcome) > 0
  /\ probe.semanticAttributes # <<>>
  /\ probe.schema.attributes = Some(<<Attr("http.method", StringValue("GET"))>>)
  /\ probe.data = <<SpanNoTarget>>
  /\ probe.outcome[1] = AssertionError(1, 0)

DataPointFields == {"count", "sum", "flags", "min", "max", "bucketCounts", "explicitBounds"}

\* The data points of the metrics in the probed buffer.
ProbedDataPoints ==
  UNION {IF IsSome(probe.data[k].histogram)
           THEN SetOf(Val(Val(probe.data[k].histogram).dataPoints)) ELSE {} :
         k \in 1..Len(probe.data)}

\* C17: a histogram verifier built by withCount, withSum, withFlags,
\* withMin, withMax, withBucketCounts and withExplicitBounds calls alone
\* passes exactly when some buffered data point has, in every field that
\* was declared, a value equal to the declared one (element by element
\* for the two lists).
C17_DataPointEquality ==
  (/\ probe.type = "metric" /\ Len(probe.outcome) > 0
   /\ probe.semanticAttributes = <<>>
   /\ probe.schema = [EmptyMetricSchema EXCEPT !.dataPoint = probe.schema.dataPoint]
   /\ ~IsSome(probe.schema.dataPoint.attributes))
  => ((probe.outcome[1] = Ok) <=>
        \E dp \in ProbedDataPoints :
          \A f \in DataPointFields :
            IsSome(probe.schema.dataPoint[f]) => dp[f] = probe.schema.dataPoint[f])

VerifyStep == probe'.type # "none" /\ (probe.type = "none" \/ probe' # probe)

SpansOfEntry(entry) ==
  Flatten([j \in 1..Len(entry.scopeSpans) |->
             IF IsSome(entry.scopeSpans[j].spans) THEN Val(entry.scopeSpans[j].spans) ELSE <<>>])

\* Every span received so far with the entry it arrived in, in order.
OriginsOfEntry(entry) ==
  [i \in 1..Len(SpansOfEntry(entry)) |-> [span |-> SpansOfEntry(entry)[i], entry |-> entry]]

OriginsOfRequest(data) ==
  Flatten([e \in 1..Len(data.resourceSpans) |-> OriginsOfEntry(data.resourceSpans[e])])

Origins == Flatten([r \in 1..Len(calls.requests) |-> OriginsOfRequest(calls.requests[r])])

\* C20: the buffer holds, in order, every span of the handled requests,
\* each unchanged but for resourceAttributes, which is the attribute list
\* of the resource of the entry the span arrived in, and the empty list
\* when that entry has no resource or the resource no attributes.
C20_ResourceAttributesDenormalized ==
  /\ Len(telemetryData) = Len(Origins)
  /\ \A k \in 1..Len(telemetryData) :
       LET resource == Origins[k].entry.resource
           expected == IF IsSome(resource) /\ IsSome(Val(resource).attributes)
                         THEN Val(Val(resource).attributes) ELSE <<>>
       IN /\ telemetryData[k].resourceAttributes = Some(expected)
          /\ [telemetryData[k] EXCEPT !.resourceAttributes = Origins[k].span.resourceAttributes]
               = Origins[k].span

C20_Witness ==
  /\ Len(calls.requests) = 2
  /\ \E k \in 1..Len(telemetryData) :
       Origins[k].span = RawStale /\ telemetryData[k].resourceAttributes = Some(<<>>)
  /\ \E k \in 1..Len(telemetryData) :
       /\ Origins[k].entry = EntryService
       /\ telemetryData[k].resourceAttributes = Some(<<Attr("appname", StringValue("my-service"))>>)

\* C21: a verifier registered through toHaveSpan() or toHaveHttpSpan()
\* (expected count 1) passes on a buffer of spans exactly when at least one
\* span matches its shape, two or more included.
C21_ToHaveSpanAtLeastOne ==
  (/\ probe.type = "span" /\ Len(probe.outcome) > 0
   /\ probe.expectedCount = 1
   /\ TypedSpans(probe.data))
  => ((probe.outcome[1] = Ok) <=> (ProbeMatching # {}))

\* C22: every evaluation that a collect call triggers is given the buffer
\* with all records of that call appended after the records of every
\* earlier call, and every subscribed wait runs exactly one such evaluation.
C22_AppendBeforeNotify ==
  [][CollectStep =>
       \A i \in 1..MaxWaits :
         waits[i].subscribed =>
           /\ Len(waits'[i].evals) = Len(waits[i].evals) + 1
           /\ waits'[i].saw = telemetryData \o batches'[Len(batches')]
           /\ waits'[i].saw = Flatten(batches')
           /\ waits'[i].evals[Len(waits'[i].evals)]
                = RunAssertions(assertions, builders, waits'[i].saw)]_vars

C22_Witness ==
  \E i \in Started :
    /\ Len(waits[i].evals) = 3
    /\ Len(batches) = 2
    /\ Len(batches[1]) = 1 /\ Len(batches[2]) = 1
    /\ waits[i].saw = batches[1] \o batches[2]
    /\ waits[i].status = "resolved"

\* A step that handles one export request.
HandleStep == Len(calls'.requests) = Len(calls.requests) + 1

\* C23: handling one export request makes exactly one collect call, and
\* every subscribed wait runs exactly one evaluation for it, on the buffer
\* that holds every record of the request.
C23_OneCollectPerRequest ==
  [][HandleStep =>
       /\ calls'.collect = calls.collect + 1
       /\ \A i \in 1..MaxWaits :
            waits[i].subscribed =>
              /\ Len(waits'[i].evals) = Len(waits[i].evals) + 1
              /\ waits'[i].saw = telemetryData']_vars

\* C24: a promise returned by waitForUpdate stays pending until the next
\* collect call and is resolved by that call, with the buffer that ends
\* with the call's records; every promise pending at that call is resolved
\* by it, and a resolved promise never changes again.
C24_WaitForUpdateResolvesOnNextCollect ==
  [][\A i \in 1..MaxWaits :
       /\ (waits[i].update = "pending" /\ CollectStep)
            => /\ waits'[i].update = "resolved"
               /\ waits'[i].saw = telemetryData'
               /\ telemetryData' = telemetryData \o batches'[Len(batches')]
               /\ waits[i].op = "waitForUpdate"
                    => waits'[i].status = "resolved" /\ waits'[i].result = Some(Buffer)
       /\ (waits[i].update = "pending" /\ ~CollectStep) => waits'[i] = waits[i]
       /\ (waits[i].op = "waitForUpdate" /\ waits[i].status = "resolved")
            => /\ waits'[i].status = "resolved"
               /\ waits'[i].result = waits[i].result
               /\ waits'[i].saw = waits[i].saw]_vars

C24_Witness ==
  /\ Len(batches) = 2
  /\ Len(batches[1]) = 1 /\ Len(batches[2]) = 1
  /\ \A i \in 1..2 :
       /\ waits[i].op = "waitForUpdate"
       /\ waits[i].status = "resolved"
       /\ waits[i].saw = batches[1]
       /\ waits[i].heard = 2

\* C30: the first assertAll runs no evaluation and stays pending as long
\* as no collect call has followed it, whatever the buffer holds; it runs
\* exactly one evaluation, after such a call and on the buffer that holds
\* the records of every collect call made since, and settles by it.
C30_EarlyAssertAllWaitsForCollect ==
  [][\A i \in 1..MaxWaits :
       waits'[i].op = "assertAll" =>
         /\ waits'[i].heard = 0 => (waits'[i].status = "pending" /\ waits'[i].evals = <<>>)
         /\ Len(waits'[i].evals) <= 1
         /\ (waits'[i].status # "pending") <=> (Len(waits'[i].evals) = 1)
         /\ (Len(waits[i].evals) = 0 /\ Len(waits'[i].evals) = 1)
              => /\ waits[i].heard >= 1
                 /\ ~CollectStep
                 /\ waits'[i].saw = telemetryData
                 /\ telemetryData = Flatten(batches)
                 /\ Len(batches) >= waits[i].heard
                 /\ waits'[i].evals[1] = RunAssertions(assertions, builders, telemetryData)]_vars

C30_Witness ==
  /\ waits[1].op = "assertAll" /\ waits[1].status = "resolved"
  /\ waits[1].evals = <<Ok>>
  /\ waits[2].op = "assertAll" /\ waits[2].status = "pending" /\ waits[2].heard = 0
  /\ Len(assertions) > 0
  /\ RunAssertions(assertions, builders, telemetryData) = Ok

IsPrefix(a, b) == Len(a) <= Len(b) /\ SubSeq(b, 1, Len(a)) = a

\* C25: every step either leaves the buffer a prefix of what it becomes,
\* or is a clear() call, which empties the buffer and does nothing else;
\* no collect, assert(), assertAll(), evaluation or timer removes a record.
C25_OnlyClearRemoves ==
  [][\/ IsPrefix(telemetryData, telemetryData')
     \/ /\ telemetryData' = <<>>
        /\ UNCHANGED <<kind, builders, assertions, waits, calls, probe>>]_vars

C25_Witness ==
  /\ Len(batches) = 2
  /\ Len(batches[1]) = 1 /\ Len(batches[2]) = 1
  /\ telemetryData = batches[1] \o batches[2]
  /\ waits[1].status = "resolved" /\ Len(waits[1].evals) = 1 /\ Len(waits[1].saw) = 1
  /\ waits[2].status = "rejected"

\* Metric k of the probed buffer has, for every expected resource
\* attribute, some resource attribute with that key and a matching value.
HasEveryExpectedResource(k) ==
  \A e \in SetOf(Val(probe.schema.resourceAttributes)) :
    \E a \in SetOf(IF IsSome(probe.data[k].resourceAttributes)
                     THEN Val(probe.data[k].resourceAttributes) ELSE <<>>) :
      a.key = e.key /\ AttributeValuesMatch(a.value, e.value)

\* C26: a metric matches a verifier with a resource attribute list exactly
\* when it satisfies the verifier's other constraints and has, for every
\* expected resource attribute, at least one resource attribute with that
\* key and a matching value.
C26_ResourceAttributesExistential ==
  (/\ probe.type = "metric" /\ Len(probe.outcome) > 0
   /\ IsSome(probe.schema.resourceAttributes)
   /\ TypedMetrics(probe.data))
  => ProbeMatching =
       {k \in 1..Len(probe.data) :
          /\ MatchesMetric([probe.schema EXCEPT !.resourceAttributes = None],
                           probe.semanticAttributes, probe.data[k]) = "true"
          /\ HasEveryExpectedResource(k)}

\* C27: a wait that starts pending is subscribed in the step that ran its
\* failing first evaluation and stays subscribed while it is pending, and
\* every collect call made while it is pending runs one evaluation of it,
\* on the buffer after that call.
C27_NoLostWakeup ==
  [][\A i \in 1..MaxWaits :
       /\ (waits[i].status = "none" /\ waits'[i].status = "pending")
            => waits'[i].subscribed /\ waits'[i].evals[1].type # "ok"
       /\ waits'[i].status = "pending" => waits'[i].subscribed
       /\ (waits[i].status = "pending" /\ CollectStep)
            => /\ Len(waits'[i].evals) = Len(waits[i].evals) + 1
               /\ waits'[i].evals[Len(waits'[i].evals)]
                    = RunAssertions(assertions, builders, telemetryData')]_vars

C27_Witness ==
  \E i \in Started :
    /\ waits[i].status = "pending"
    /\ waits[i].heard = 2
    /\ Len(waits[i].evals) = 3
    /\ Len(telemetryData) = 2

\* C28: once a wait is resolved or rejected, no later step changes its
\* status or its result, neither its timer firing nor a collect call, no
\* later step evaluates it again, and its subscription is closed.
C28_SettledWaitIsInert ==
  [][\A i \in 1..MaxWaits :
       waits[i].status \in {"resolved", "rejected"}
         => /\ waits'[i].status = waits[i].status
            /\ waits'[i].result = waits[i].result
            /\ waits'[i].evals = waits[i].evals
            /\ waits'[i].saw = waits[i].saw
            /\ ~waits[i].subscribed /\ ~waits'[i].subscribed]_vars

C28_Witness ==
  \E i \in Started :
    /\ waits[i].status = "resolved"
    /\ waits[i].timer = "fired"
    /\ Len(waits[i].evals) = 2
    /\ calls.collect = 2
    /\ Len(waits[i].saw) = 1 /\ Len(telemetryData) = 2

\* The evaluations of wait w in which a verifier found more matching spans
\* than its expected count.
Overshoots(w) ==
  {k \in 1..Len(w.evals) :
     w.evals[k].type = "AssertionError" /\ w.evals[k].actual > w.evals[k].expected}

\* C29: a span wait one of whose evaluations found more matching spans
\* than a verifier's expected count is never resolved afterwards, and when
\* its timer fires it is rejected with the AssertionError of that
\* evaluation or of a later one.
C29_OvershootIsFinal ==
  \A i \in Started :
    Overshoots(waits[i]) # {}
      => /\ waits[i].status # "resolved"
         /\ waits[i].status = "rejected"
              => \E k \in CapturedAt(waits[i]) :
                   /\ k >= Min(Overshoots(waits[i]))
                   /\ waits[i].result = Some(waits[i].evals[k])

====
